---- MODULE Spec2Model ----
(***************************************************************************)
(* The PPV service: the /send-ppv request handler (main.py), the business  *)
(* bot switch (business_settings.py), the shared Telethon client           *)
(* (telegram_client.py) and the scripted conversation with staccerbot      *)
(* (ppv_flow.py).  Every await of the code is one step of a request, so    *)
(* requests handled concurrently by the event loop interleave at awaits.   *)
(***************************************************************************)
EXTENDS Integers, Sequences, FiniteSets, TLC

\* ---------------------------------------------------------------- bounds
\* Number of /send-ppv requests the event loop may be handling at once.
NumRequests == 2

Requests == 1..NumRequests

\* ------------------------------------------------------ program constants
STACCERBOT_USERNAME == "staccerbot"
KIMFEETGURU_BOT_USERNAME == "kimfeetguru_bot"
\* client.conversation(staccerbot, timeout=30): the default timeout of
\* every conv.get_response() of the conversation.
ConversationTimeout == 30
\* wait_for_response(conv, timeout=30) of steps 1-5.
StepTimeout == 30
\* wait_for_response(conv, timeout=60) of the final confirmation.
FinalTimeout == 60
max_retries == 2
\* Field(..., ge=1) of SendPPVRequest.stars
MinStars == 1

\* ------------------------------------------------------------------ text
\* Strings the code inspects are sequences of characters, so that lower(),
\* lstrip("@") and the `in` substring test are computed, not assumed.
UpperChars == <<"A","B","C","D","E","F","G","H","I","J","K","L","M",
                "N","O","P","Q","R","S","T","U","V","W","X","Y","Z">>
LowerChars == <<"a","b","c","d","e","f","g","h","i","j","k","l","m",
                "n","o","p","q","r","s","t","u","v","w","x","y","z">>

LowerChar(c) ==
    IF \E i \in 1..Len(UpperChars) : UpperChars[i] = c
    THEN LowerChars[CHOOSE i \in 1..Len(UpperChars) : UpperChars[i] = c]
    ELSE c

\* str.lower()
Lower(s) == [i \in 1..Len(s) |-> LowerChar(s[i])]

\* Python's `sub in s`
Contains(sub, s) ==
    \E i \in 0..(Len(s) - Len(sub)) : SubSeq(s, i + 1, i + Len(sub)) = sub

\* username.lstrip("@")
RECURSIVE LStripAt(_)
LStripAt(s) == IF s # <<>> /\ Head(s) = "@" THEN LStripAt(Tail(s)) ELSE s

\* The literals of ppv_flow.py.
K_empty == <<"E", "m", "p", "t", "y">>
K_try == <<"T", "r", "y", " ", "a", "g", "a", "i", "n">>
K_noex == <<"n", "o", " ", "e", "x", "c", "h", "a", "n", "g", "e">>
K_48h == <<"4", "8", "h">>
K_done == <<"d", "o", "n", "e">>
K_sent == <<"s", "e", "n", "t">>
K_prep == <<"p", "r", "e", "p", "a", "r", "i", "n", "g">>

\* Faulty variant: another callback payload.
RetryDataOther == "sell"

RetryData == "sell_refresh"

\* Faulty variant: the markers are looked for without lower().
IsRejectionCaseSensitive(text) == Contains(K_noex, text) \/ Contains(K_48h, text)

\* Faulty variant: only the first marker is looked for.
IsRejectionNoExchangeOnly(text) == Contains(K_noex, Lower(text))

\* if "no exchange" in response.text.lower() or "48h" in response.text.lower()
IsRejection(text) ==
    Contains(K_noex, Lower(text)) \/ Contains(K_48h, Lower(text))

\* if "done" in final_response.text.lower() or "sent" in ...
IsSentConfirmation(text) ==
    Contains(K_done, Lower(text)) \/ Contains(K_sent, Lower(text))

\* if "preparing" in response.text.lower()
IsPreparing(text) == Contains(K_prep, Lower(text))

\* ------------------------------------------------ what the bot may answer
T_caption == <<"C", "a", "p", "t", "i", "o", "n", "?">>
T_who == <<"W", "h", "o", "?">>
T_reject == <<"N", "o", " ", "e", "x", "c", "h", "a", "n", "g", "e", " ",
              "i", "n", " ", "4", "8", "H">>
T_reject48 == <<"t", "r", "y", " ", "i", "n", " ", "4", "8", "h">>
T_preparing == <<"P", "r", "e", "p", "a", "r", "i", "n", "g", " ", "P", "P", "V">>
T_done == <<"D", "o", "n", "e", " ", "d", "e", "a", "l">>
T_sent == <<"P", "P", "V", " ", "S", "E", "N", "T">>
L_empty == <<"E", "M", "P", "T", "Y", " ", "*">>
L_empty2 == <<"E", "m", "p", "t", "y">>
L_skip == <<"S", "k", "i", "p">>
L_select == <<"S", "e", "l", "e", "c", "t", " ", "U", "s", "e", "r">>
L_try == <<"T", "r", "y", " ", "A", "g", "a", "i", "n">>
L_help == <<"H", "e", "l", "p">>

\* A button of a reply markup: its label, its Telethon type and, by type,
\* the callback data or the button_id.
Button(text, kind, data, button_id) ==
    [text |-> text, kind |-> kind, data |-> data, button_id |-> button_id]

NoButton == Button(<<>>, "none", "", 0)

BotMessages ==
    { [text |-> T_caption,
       rows |-> << <<Button(L_skip, "callback", "skip", 0),
                     Button(L_empty, "callback", "empty", 0)>>,
                   <<Button(L_empty2, "callback", "empty2", 0)>> >>],
      [text |-> T_who,
       rows |-> << <<Button(L_help, "url", "", 0)>>,
                   <<Button(L_select, "request_peer", "", 7),
                     Button(L_select, "request_peer", "", 9)>> >>],
      [text |-> T_reject,
       rows |-> << <<Button(L_try, "callback", RetryData, 0)>> >>],
      [text |-> T_reject48, rows |-> <<>>],
      [text |-> T_preparing, rows |-> <<>>],
      [text |-> T_done, rows |-> <<>>],
      [text |-> T_sent, rows |-> <<>>],
      [text |-> <<>>, rows |-> <<>>] }

\* The bot's messages that tell "no exchange in 48h".
RejectionMessages == {m \in BotMessages : m.text \in {T_reject, T_reject48}}

\* Seconds the bot takes to answer an await.
Delays == {10, 45, 70}

NoMsg == [id |-> 0, text |-> <<>>, rows |-> <<>>]

\* A received message: the bot's message with the next message id.
Received(m, prev) == [id |-> prev.id + 1, text |-> m.text, rows |-> m.rows]

\* Row-major list of the buttons of a message.
RECURSIVE Flatten(_)
Flatten(rows) == IF rows = <<>> THEN <<>> ELSE Head(rows) \o Flatten(Tail(rows))

\* Faulty variant: the label is compared without lower().
FindButtonCaseSensitive(message, button_text) ==
    LET bs == Flatten(message.rows)
        hits == {i \in 1..Len(bs) : Contains(button_text, bs[i].text)}
    IN  IF hits = {} THEN NoButton
        ELSE bs[CHOOSE i \in hits : \A j \in hits : i <= j]

\* find_and_click_button: the first button, row-major, whose text contains
\* button_text case-insensitively; NoButton if the message has none.
FindButton(message, button_text) ==
    LET bs == Flatten(message.rows)
        hits == {i \in 1..Len(bs) : Contains(Lower(button_text), Lower(bs[i].text))}
    IN  IF hits = {} THEN NoButton
        ELSE bs[CHOOSE i \in hits : \A j \in hits : i <= j]

\* Faulty variant: the type of the button is not looked at.
FindRequestPeerAnyType(message) ==
    LET bs == Flatten(message.rows)
    IN  IF bs = <<>> THEN NoButton ELSE bs[1]

\* Faulty variant: the scan does not stop at the first RequestPeer button.
FindRequestPeerLast(message) ==
    LET bs == Flatten(message.rows)
        hits == {i \in 1..Len(bs) : bs[i].kind = "request_peer"}
    IN  IF hits = {} THEN NoButton
        ELSE bs[CHOOSE i \in hits : \A j \in hits : i >= j]

\* handle_user_selection: the first KeyboardButtonRequestPeer, row-major.
FindRequestPeer(message) ==
    LET bs == Flatten(message.rows)
        hits == {i \in 1..Len(bs) : bs[i].kind = "request_peer"}
    IN  IF hits = {} THEN NoButton
        ELSE bs[CHOOSE i \in hits : \A j \in hits : i <= j]

\* --------------------------------------------------------------- requests
Usernames == { <<"@", "b", "o", "b">> }
StarsInputs == {0, 5}

\* str(stars) and f"{timeout}"
Str(n) == CASE n = 0 -> "0" [] n = 5 -> "5" [] n = 30 -> "30" [] n = 60 -> "60"
            [] OTHER -> "n"

NoRequest == [username |-> <<>>, stars |-> 0]

\* ------------------------------------------------- outcomes and responses
\* What send_ppv produced: nothing yet, a result dict, or a raised exception
\* (its class and str(e) as a sequence of pieces).
NoOutcome == [kind |-> "none", cls |-> "", message |-> <<>>, username |-> <<>>]
Result(message, username) ==
    [kind |-> "result", cls |-> "", message |-> message, username |-> username]
Raised(cls, message) ==
    [kind |-> "raised", cls |-> cls, message |-> message, username |-> <<>>]

PPVFlowError(message) == Raised("PPVFlowError", message)
\* A fault of a collaborator (Telethon RPC error, connection error, ...).
Cause == "transport error"
TransportFault == Raised("Exception", <<Cause>>)
\* A fault of account.UpdateConnectedBotRequest (or of its get_entity).
SwitchFault == Raised("Exception", <<"update connected bot failed">>)

NoHttp == [code |-> 0, status |-> "", message |-> <<>>, username |-> <<>>]

VARIABLES
    pc,             \* pc[r]: where request r's coroutine is suspended
    request,        \* request[r]: the SendPPVRequest being handled
    fl,             \* fl[r]: the locals of r's send_ppv call, and its history:
                    \*   sent        what it sent to the bot, in order
                    \*   selAttempts structured peer replies sent
                    \*   markers     selection responses that carried a
                    \*               rejection marker
                    \*   estCalls    times the contact establishment ran
                    \*   timedOut    the await that timed out, if any
                    \*   final_delay seconds the bot took to send the final
                    \*               confirmation
    h,              \* h[r]: what r's handler has done so far
    activeBot,      \* the account's connected business bot
    connected,      \* _client.is_connected()
    authorized,     \* the session is an authorized one
    conversations   \* client._conversations[staccerbot]: open conversations

vars == <<pc, request, fl, h, activeBot, connected, authorized, conversations>>

InitLocals ==
    [response |-> NoMsg, final_response |-> NoMsg, retry_count |-> 0,
     quick_msg |-> "none", sent |-> <<>>, selAttempts |-> 0, markers |-> 0,
     estCalls |-> 0, timedOut |-> "none", final_delay |-> 0]

InitHandler ==
    [flowCalls |-> 0, restoreCalls |-> 0, restoreFailed |-> FALSE,
     outcome |-> NoOutcome, http |-> NoHttp]

Init ==
    /\ pc = [r \in Requests |-> "idle"]
    /\ request = [r \in Requests |-> NoRequest]
    /\ fl = [r \in Requests |-> InitLocals]
    /\ h = [r \in Requests |-> InitHandler]
    /\ activeBot = KIMFEETGURU_BOT_USERNAME
    /\ connected \in BOOLEAN
    /\ authorized \in BOOLEAN
    /\ conversations = {}

\* ------------------------------------------------------------ main.py
\* The detail of the HTTPException the handler raises for an exception e:
\* str(e) for RuntimeError and PPVFlowError, "Unexpected error: " + str(e)
\* for any other Exception.
Detail(exc) ==
    IF exc.cls \in {"RuntimeError", "PPVFlowError"}
    THEN exc.message
    ELSE <<"Unexpected error: ">> \o exc.message

\* Faulty variant: the error body is sent with the default status code.
ErrorResponseDefaultCode(exc) ==
    [code |-> 200, status |-> "error", message |-> Detail(exc), username |-> <<>>]

\* http_exception_handler: JSONResponse(status_code, {"status": "error",
\* "message": exc.detail}).
ErrorResponse(exc) ==
    [code |-> 500, status |-> "error", message |-> Detail(exc), username |-> <<>>]

\* return SendPPVResponse(**result)
SendPPVResponse(result) ==
    [code |-> 200, status |-> "success", message |-> result.message,
     username |-> result.username]

\* FastAPI's answer to a body that fails SendPPVRequest's validation.
ValidationResponse ==
    [code |-> 422, status |-> "", message |-> <<"validation error">>,
     username |-> <<>>]

\* Faulty variant: the identity switch sits inside the try of the finally
\* clause, so that its failure runs the restore.
HandlerRaiseThroughFinally(r, exc) ==
    /\ h' = [h EXCEPT ![r].outcome = exc]
    /\ pc' = [pc EXCEPT ![r] = "h_restore"]

\* An exception leaves the handler's outer try before send_ppv was called:
\* the except clauses turn it into the HTTP 500 response.
HandlerRaise(r, exc) ==
    /\ h' = [h EXCEPT ![r].http = ErrorResponse(exc)]
    /\ pc' = [pc EXCEPT ![r] = "done"]

\* Faulty variant: the stars field has no lower limit.
ValidAnyStars(req) == TRUE

\* SendPPVRequest: stars: int = Field(..., ge=1)
Valid(req) == req.stars >= MinStars

\* POST /send-ppv arrives; the body is validated against SendPPVRequest
\* (stars >= 1) before send_ppv_endpoint runs.
Receive(r) ==
    /\ pc[r] = "idle"
    /\ \E u \in Usernames, s \in StarsInputs :
        /\ request' = [request EXCEPT ![r] = [username |-> u, stars |-> s]]
        /\ IF Valid([username |-> u, stars |-> s])
           THEN /\ pc' = [pc EXCEPT ![r] = "h_connect"]
                /\ h' = [h EXCEPT ![r] = InitHandler]
           ELSE /\ pc' = [pc EXCEPT ![r] = "done"]
                /\ h' = [h EXCEPT ![r] = [InitHandler EXCEPT !.http = ValidationResponse]]
    /\ UNCHANGED <<fl, activeBot, connected, authorized, conversations>>

\* ensure_connected: if not client.is_connected(): await client.connect()
HConnect(r) ==
    /\ pc[r] = "h_connect"
    /\ \/ /\ connected' = TRUE
          /\ pc' = [pc EXCEPT ![r] = "h_auth"]
          /\ UNCHANGED h
       \/ /\ ~connected
          /\ HandlerRaise(r, TransportFault)
          /\ UNCHANGED connected
    /\ UNCHANGED <<request, fl, activeBot, authorized, conversations>>

\* ensure_connected: if not await client.is_user_authorized(): raise RuntimeError
HAuth(r) ==
    /\ pc[r] = "h_auth"
    /\ IF authorized
       THEN /\ pc' = [pc EXCEPT ![r] = "h_activate"]
            /\ UNCHANGED h
       ELSE HandlerRaise(r, Raised("RuntimeError", <<"Client is not authorized">>))
    /\ UNCHANGED <<request, fl, activeBot, connected, authorized, conversations>>

\* await switch_to_staccerbot(client), then the call of send_ppv, which runs
\* up to its first await (the photo download).
HActivate(r) ==
    /\ pc[r] = "h_activate"
    /\ \/ /\ activeBot' = STACCERBOT_USERNAME
          /\ pc' = [pc EXCEPT ![r] = "f_download"]
          /\ h' = [h EXCEPT ![r].flowCalls = @ + 1]
       \/ /\ HandlerRaise(r, SwitchFault)
          /\ UNCHANGED activeBot
    /\ UNCHANGED <<request, fl, connected, authorized, conversations>>

\* Faulty variant: a flow error leaves the handler without the restore.
RestoreSkippedOnFlowError(outcome) ==
    ~(outcome.kind = "raised" /\ outcome.cls = "PPVFlowError")

\* Faulty variant: the restore sits after the call instead of in a finally clause.
RestoreOnlyOnResult(outcome) == outcome.kind = "result"

\* The finally clause: switch_to_kimfeetguru is called whether send_ppv
\* returned or raised.
RestoreInvoked(outcome) == TRUE

\* Faulty variant: the failure of the restore is not caught.
RestoreFailureReplaces(outcome, exc) == exc

\* except Exception around switch_to_kimfeetguru: the failure is logged and
\* what send_ppv produced stands.
AfterRestoreFailure(outcome, exc) == outcome

\* The finally clause of the handler, and what follows it without an await:
\* the response from the result, or the except clauses for the exception
\* send_ppv raised.
HRestore(r) ==
    /\ pc[r] = "h_restore"
    /\ \E ok \in BOOLEAN :
        LET out == h[r].outcome
            called == RestoreInvoked(out)
            failed == called /\ ~ok
            final == IF failed THEN AfterRestoreFailure(out, SwitchFault) ELSE out
        IN  /\ activeBot' = IF called /\ ok THEN KIMFEETGURU_BOT_USERNAME ELSE activeBot
            /\ h' = [h EXCEPT ![r].restoreCalls = IF called THEN @ + 1 ELSE @,
                              ![r].restoreFailed = failed,
                              ![r].http = IF final.kind = "result"
                                          THEN SendPPVResponse(final)
                                          ELSE ErrorResponse(final)]
    /\ pc' = [pc EXCEPT ![r] = "done"]
    /\ UNCHANGED <<request, fl, connected, authorized, conversations>>

\* The response has been sent; the slot is free for the next request.
Close(r) ==
    /\ pc[r] = "done"
    /\ pc' = [pc EXCEPT ![r] = "idle"]
    /\ request' = [request EXCEPT ![r] = NoRequest]
    /\ h' = [h EXCEPT ![r] = InitHandler]
    /\ UNCHANGED <<fl, activeBot, connected, authorized, conversations>>

\* ------------------------------------------------------------ ppv_flow.py
\* send_ppv raises before its conversation is open: the exception reaches
\* the handler's finally clause.
FlowRaise(r, exc) ==
    /\ h' = [h EXCEPT ![r].outcome = exc]
    /\ pc' = [pc EXCEPT ![r] = "h_restore"]

\* Faulty variant: what a step produces does not end the flow; the step is
\* taken again.
ConvLeaveStays(r, out) == UNCHANGED <<h, pc>>

\* send_ppv returns or raises inside `async with client.conversation(...)`:
\* the block is left (FExit) before the caller sees the outcome.
ConvLeave(r, out) ==
    /\ h' = [h EXCEPT ![r].outcome = out]
    /\ pc' = [pc EXCEPT ![r] = "f_exit"]

\* What one step of the conversation leaves alone.
ConvFrame == UNCHANGED <<request, activeBot, connected, authorized, conversations>>

\* wait_for_response(conv, timeout): asyncio.wait_for(conv.get_response(),
\* timeout), where get_response itself gives up after the conversation's
\* timeout.  TRUE iff an answer that takes `delay` seconds is received.
InTime(delay, timeout) ==
    delay < (IF timeout < ConversationTimeout THEN timeout ELSE ConversationTimeout)

\* raise PPVFlowError(f"Bot did not respond within {timeout} seconds")
BotTimeout(timeout) ==
    PPVFlowError(<<"Bot did not respond within ", Str(timeout), " seconds">>)

\* photo_bytes = await download_photo(photo_url)
FDownload(r) ==
    /\ pc[r] = "f_download"
    /\ \/ /\ pc' = [pc EXCEPT ![r] = "f_entity"]
          /\ UNCHANGED h
       \/ FlowRaise(r, PPVFlowError(<<"Failed to download photo: ", Cause>>))
    /\ UNCHANGED <<request, fl, activeBot, connected, authorized, conversations>>

\* staccerbot = await client.get_entity(STACCERBOT_USERNAME)
FEntity(r) ==
    /\ pc[r] = "f_entity"
    /\ \/ /\ pc' = [pc EXCEPT ![r] = "f_open"]
          /\ UNCHANGED h
       \/ FlowRaise(r, PPVFlowError(<<"Failed to find @", STACCERBOT_USERNAME, ": ", Cause>>))
    /\ UNCHANGED <<request, fl, activeBot, connected, authorized, conversations>>

\* Conversation.__aenter__ with the default exclusive=True: a conversation
\* already open with the same chat makes it raise AlreadyInConversationError.
MayOpen(open) == open = {}

\* async with client.conversation(staccerbot, timeout=30) as conv:
FOpen(r) ==
    /\ pc[r] = "f_open"
    /\ IF MayOpen(conversations)
       THEN /\ conversations' = conversations \cup {r}
            /\ pc' = [pc EXCEPT ![r] = "s1_send"]
            /\ UNCHANGED h
       ELSE /\ FlowRaise(r, Raised("AlreadyInConversationError",
                                   <<"Cannot open exclusive conversation">>))
            /\ UNCHANGED conversations
    /\ UNCHANGED <<request, fl, activeBot, connected, authorized>>

\* The conversation block is left: the conversation is closed and the locals
\* of send_ppv are gone.
FExit(r) ==
    /\ pc[r] = "f_exit"
    /\ conversations' = conversations \ {r}
    /\ fl' = [fl EXCEPT ![r] = InitLocals]
    /\ pc' = [pc EXCEPT ![r] = "h_restore"]
    /\ UNCHANGED <<request, h, activeBot, connected, authorized>>

\* What the flow sends to the bot: a text, the photo, the activation of a
\* button of a message, a callback by data on a message, or the structured
\* peer reply to a RequestPeer button.
Sent(op, arg, msg_id, button_id) ==
    [op |-> op, arg |-> arg, msg_id |-> msg_id, button_id |-> button_id]
Text(t) == Sent("text", t, 0, 0)
File == Sent("file", <<"photo.jpg">>, 0, 0)
Click(message, b) == Sent("click", b.text, message.id, 0)
ClickData(message, data) == Sent("click_data", <<data>>, message.id, 0)
PeerReply(message, button_id, user) == Sent("peer", user, message.id, button_id)

\* An outbound call on the bot dialogue succeeds (it is recorded in `sent`
\* and the flow goes on to `next`) or raises the collaborator's fault.
Outbound(r, what, next) ==
    \/ /\ fl' = [fl EXCEPT ![r].sent = Append(@, what)]
       /\ pc' = [pc EXCEPT ![r] = next]
       /\ UNCHANGED h
    \/ /\ ConvLeave(r, TransportFault)
       /\ UNCHANGED fl

\* response = await wait_for_response(conv, timeout=30): the next message of
\* the bot, or PPVFlowError when it does not come in time.
AwaitResponse(r, at, next) ==
    \E d \in Delays :
        IF InTime(d, StepTimeout)
        THEN \E m \in BotMessages :
                /\ fl' = [fl EXCEPT ![r].response = Received(m, fl[r].response)]
                /\ pc' = [pc EXCEPT ![r] = next]
                /\ UNCHANGED h
        ELSE /\ fl' = [fl EXCEPT ![r].timedOut = at]
             /\ ConvLeave(r, BotTimeout(StepTimeout))

\* Step 1: await conv.send_message("/sell")
S1Send(r) ==
    /\ pc[r] = "s1_send"
    /\ Outbound(r, Text(<<"/sell">>), "s1_wait")
    /\ ConvFrame

\* Faulty variant: the photo is sent without awaiting the answer to /sell.
S1WaitSkipped(r) ==
    /\ pc[r] = "s1_wait"
    /\ pc' = [pc EXCEPT ![r] = "s2_send"]
    /\ UNCHANGED <<fl, h>>
    /\ ConvFrame

S1Wait(r) ==
    /\ pc[r] = "s1_wait"
    /\ AwaitResponse(r, "s1_wait", "s2_send")
    /\ ConvFrame

\* Step 2: await conv.send_file(photo_file, force_document=False)
S2Send(r) ==
    /\ pc[r] = "s2_send"
    /\ Outbound(r, File, "s2_wait")
    /\ ConvFrame

S2Wait(r) ==
    /\ pc[r] = "s2_wait"
    /\ AwaitResponse(r, "s2_wait", "s3_act")
    /\ ConvFrame

\* Faulty variant: the caption is always answered with the text.
S3ActAlwaysText(r) ==
    /\ pc[r] = "s3_act"
    /\ Outbound(r, Text(<<"Empty">>), "s3_wait")
    /\ ConvFrame

\* Step 3: if not await find_and_click_button(response, "Empty"):
\*             await conv.send_message("Empty")
S3Act(r) ==
    /\ pc[r] = "s3_act"
    /\ LET b == FindButton(fl[r].response, K_empty)
       IN  IF b # NoButton
           THEN Outbound(r, Click(fl[r].response, b), "s3_wait")
           ELSE Outbound(r, Text(<<"Empty">>), "s3_wait")
    /\ ConvFrame

S3Wait(r) ==
    /\ pc[r] = "s3_wait"
    /\ AwaitResponse(r, "s3_wait", "s4_send")
    /\ ConvFrame

\* Step 4: await conv.send_message(str(stars))
S4Send(r) ==
    /\ pc[r] = "s4_send"
    /\ Outbound(r, Text(<<Str(request[r].stars)>>), "s4_wait")
    /\ ConvFrame

\* ... and max_retries = 2; retry_count = 0 before the loop
S4Wait(r) ==
    /\ pc[r] = "s4_wait"
    /\ AwaitResponse(r, "s4_wait", "sel_find")
    /\ ConvFrame

\* Step 5, handle_user_selection up to its first await: the RequestPeer
\* button of the prompt is looked up, then
\* target_user = await client.get_entity(clean_username)
SelFind(r) ==
    /\ pc[r] = "sel_find"
    /\ IF FindRequestPeer(fl[r].response) = NoButton
       THEN ConvLeave(r, PPVFlowError(<<"Could not find user selection button">>))
       ELSE \/ /\ pc' = [pc EXCEPT ![r] = "sel_bot"]
               /\ UNCHANGED h
            \/ ConvLeave(r, PPVFlowError(<<"Could not find user @">>
                                \o LStripAt(request[r].username) \o <<": ", Cause>>))
    /\ UNCHANGED fl
    /\ ConvFrame

\* staccerbot = await client.get_entity(STACCERBOT_USERNAME), outside any try
SelBot(r) ==
    /\ pc[r] = "sel_bot"
    /\ \/ /\ pc' = [pc EXCEPT ![r] = "sel_send"]
          /\ UNCHANGED h
       \/ ConvLeave(r, TransportFault)
    /\ UNCHANGED fl
    /\ ConvFrame

\* await client(SendBotRequestedPeerRequest(peer, msg_id=message.id,
\*     button_id, requested_peers=[target_user]))
SelSend(r) ==
    /\ pc[r] = "sel_send"
    /\ \/ /\ fl' = [fl EXCEPT
                 ![r].sent = Append(@, PeerReply(fl[r].response,
                                FindRequestPeer(fl[r].response).button_id,
                                LStripAt(request[r].username))),
                 ![r].selAttempts = @ + 1]
          /\ pc' = [pc EXCEPT ![r] = "sel_wait"]
          /\ UNCHANGED h
       \/ /\ ConvLeave(r, PPVFlowError(<<"Failed to select user: ", Cause>>))
          /\ UNCHANGED fl
    /\ ConvFrame

\* Faulty variant: off by one: one more retry than max_retries.
RetriesExhaustedLate(retry_count) == retry_count > max_retries + 1

\* Faulty variant: off by one: gives up when retry_count reaches max_retries.
RetriesExhaustedEarly(retry_count) == retry_count >= max_retries

\* The loop condition after a rejection: retry_count was incremented;
\* if retry_count > max_retries the flow gives up.
RetriesExhausted(retry_count) == retry_count > max_retries

\* response = await wait_for_response(conv, timeout=30) of
\* handle_user_selection, then the loop body's test of the response.
SelWait(r) ==
    /\ pc[r] = "sel_wait"
    /\ \E d \in Delays :
        IF InTime(d, StepTimeout)
        THEN \E m \in BotMessages :
            LET resp == Received(m, fl[r].response)
                rc == fl[r].retry_count + 1
                mk == fl[r].markers + (IF m \in RejectionMessages THEN 1 ELSE 0)
            IN  IF IsRejection(resp.text)
                THEN IF RetriesExhausted(rc)
                     THEN /\ fl' = [fl EXCEPT ![r].response = resp,
                                              ![r].markers = mk,
                                              ![r].retry_count = rc]
                          /\ ConvLeave(r, PPVFlowError(
                               <<"Cannot send PPV: no recent exchange with user and retries exhausted">>))
                     ELSE /\ fl' = [fl EXCEPT ![r].response = resp,
                                              ![r].markers = mk,
                                              ![r].retry_count = rc,
                                              ![r].estCalls = @ + 1]
                          /\ pc' = [pc EXCEPT ![r] = "est_entity"]
                          /\ UNCHANGED h
                ELSE /\ fl' = [fl EXCEPT ![r].response = resp, ![r].markers = mk]
                     /\ pc' = [pc EXCEPT ![r] = "final_wait"]
                     /\ UNCHANGED h
        ELSE /\ fl' = [fl EXCEPT ![r].timedOut = "sel_wait"]
             /\ ConvLeave(r, BotTimeout(StepTimeout))
    /\ ConvFrame

\* Faulty variant: a failure of the contact establishment leaves the flow.
OnEstablisherFailureRaises(r) == ConvLeave(r, TransportFault)

\* Contact establishment, inside try/except Exception: any failure is logged
\* and the flow goes on to the retry button.
OnEstablisherFailure(r) ==
    /\ pc' = [pc EXCEPT ![r] = "retry_click"]
    /\ UNCHANGED h

\* target_user = await client.get_entity(clean_username)
EstEntity(r) ==
    /\ pc[r] = "est_entity"
    /\ \/ /\ pc' = [pc EXCEPT ![r] = "est_send"]
          /\ UNCHANGED h
       \/ OnEstablisherFailure(r)
    /\ UNCHANGED fl
    /\ ConvFrame

\* quick_msg = await client.send_message(target_user, "Hey!")
EstSend(r) ==
    /\ pc[r] = "est_send"
    /\ \/ /\ fl' = [fl EXCEPT ![r].quick_msg = "sent"]
          /\ pc' = [pc EXCEPT ![r] = "est_sleep"]
          /\ UNCHANGED h
       \/ /\ OnEstablisherFailure(r)
          /\ UNCHANGED fl
    /\ ConvFrame

\* await asyncio.sleep(2)
EstSleep(r) ==
    /\ pc[r] = "est_sleep"
    /\ pc' = [pc EXCEPT ![r] = "est_delete"]
    /\ UNCHANGED <<fl, h>>
    /\ ConvFrame

\* await quick_msg.delete()
EstDelete(r) ==
    /\ pc[r] = "est_delete"
    /\ \/ /\ fl' = [fl EXCEPT ![r].quick_msg = "deleted"]
          /\ pc' = [pc EXCEPT ![r] = "retry_click"]
          /\ UNCHANGED h
       \/ /\ OnEstablisherFailure(r)
          /\ UNCHANGED fl
    /\ ConvFrame

\* (quick_msg is not used after the establisher: it is forgotten here.)
\* try: await response.click(data=b"sell_refresh")
\* except Exception: (the fallback, RetryFallback)
RetryClick(r) ==
    /\ pc[r] = "retry_click"
    /\ \/ /\ fl' = [fl EXCEPT ![r].sent = Append(@, ClickData(fl[r].response, RetryData)),
                             ![r].quick_msg = "none"]
          /\ pc' = [pc EXCEPT ![r] = "retry_wait"]
       \/ /\ fl' = [fl EXCEPT ![r].quick_msg = "none"]
          /\ pc' = [pc EXCEPT ![r] = "retry_fallback"]
    /\ UNCHANGED h
    /\ ConvFrame

\* except Exception: if not await find_and_click_button(response, "Try again"):
\*                       raise PPVFlowError("Could not find 'Try again' button")
RetryFallback(r) ==
    /\ pc[r] = "retry_fallback"
    /\ LET b == FindButton(fl[r].response, K_try)
       IN  IF b # NoButton
           THEN Outbound(r, Click(fl[r].response, b), "retry_wait")
           ELSE /\ ConvLeave(r, PPVFlowError(<<"Could not find 'Try again' button">>))
                /\ UNCHANGED fl
    /\ ConvFrame

\* response = await wait_for_response(conv, timeout=30); continue
RetryWait(r) ==
    /\ pc[r] = "retry_wait"
    /\ AwaitResponse(r, "retry_wait", "sel_find")
    /\ ConvFrame

\* The three result dicts of send_ppv.
SentResult(username) == Result(<<"PPV sent successfully">>, username)
SubmittedResult(username) == Result(<<"PPV submitted for sending">>, username)
CompletedResult(username) == Result(<<"PPV flow completed">>, username)

\* Faulty variant: the timeout of the final wait ignores the last response.
OnFinalTimeoutNoDowngrade(response, username) == CompletedResult(username)

\* Faulty variant: a final message that says "preparing" gives the
\* provisional result.
OnFinalResponseProvisional(final_response, username) ==
    IF IsSentConfirmation(final_response.text)
    THEN SentResult(username)
    ELSE IF IsPreparing(final_response.text)
         THEN SubmittedResult(username)
         ELSE CompletedResult(username)

\* Faulty variant: the confirmation is matched without lower().
OnFinalResponseCaseSensitive(final_response, username) ==
    IF Contains(K_done, final_response.text) \/ Contains(K_sent, final_response.text)
    THEN SentResult(username)
    ELSE CompletedResult(username)

\* except PPVFlowError around the final wait: what the flow produces when
\* the final confirmation did not come, given the last response seen.
OnFinalTimeout(response, username) ==
    IF IsPreparing(response.text)
    THEN SubmittedResult(username)
    ELSE CompletedResult(username)

\* What the flow produces for the final message received.
OnFinalResponse(final_response, username) ==
    IF IsSentConfirmation(final_response.text)
    THEN SentResult(username)
    ELSE CompletedResult(username)

\* final_response = await wait_for_response(conv, timeout=60) and the
\* returns that follow it.
FinalWait(r) ==
    /\ pc[r] = "final_wait"
    /\ \E d \in Delays :
        IF InTime(d, FinalTimeout)
        THEN \E m \in BotMessages :
            LET fin == Received(m, fl[r].response)
            IN  /\ fl' = [fl EXCEPT ![r].final_response = fin,
                                     ![r].final_delay = d]
                /\ ConvLeave(r, OnFinalResponse(fin, request[r].username))
        ELSE /\ fl' = [fl EXCEPT ![r].timedOut = "final_wait",
                                  ![r].final_delay = d]
             /\ ConvLeave(r, OnFinalTimeout(fl[r].response, request[r].username))
    /\ ConvFrame

\* ---------------------------------------------------------- specification
Next ==
    \E r \in Requests :
        \/ Receive(r)
        \/ HConnect(r)
        \/ HAuth(r)
        \/ HActivate(r)
        \/ FDownload(r)
        \/ FEntity(r)
        \/ FOpen(r)
        \/ S1Send(r)
        \/ S1Wait(r)
        \/ S2Send(r)
        \/ S2Wait(r)
        \/ S3Act(r)
        \/ S3Wait(r)
        \/ S4Send(r)
        \/ S4Wait(r)
        \/ SelFind(r)
        \/ SelBot(r)
        \/ SelSend(r)
        \/ SelWait(r)
        \/ EstEntity(r)
        \/ EstSend(r)
        \/ EstSleep(r)
        \/ EstDelete(r)
        \/ RetryClick(r)
        \/ RetryFallback(r)
        \/ RetryWait(r)
        \/ FinalWait(r)
        \/ FExit(r)
        \/ HRestore(r)
        \/ Close(r)

Spec == Init /\ [][Next]_vars

\* The steps of request r's send_ppv call.
FlowStep(r) ==
    \/ FDownload(r) \/ FEntity(r) \/ FOpen(r)
    \/ S1Send(r) \/ S1Wait(r) \/ S2Send(r) \/ S2Wait(r)
    \/ S3Act(r) \/ S3Wait(r) \/ S4Send(r) \/ S4Wait(r)
    \/ SelFind(r) \/ SelBot(r) \/ SelSend(r) \/ SelWait(r)
    \/ EstEntity(r) \/ EstSend(r) \/ EstSleep(r) \/ EstDelete(r)
    \/ RetryClick(r) \/ RetryFallback(r) \/ RetryWait(r)
    \/ FinalWait(r) \/ FExit(r)

\* The event loop resumes a coroutine once its await has completed, and every
\* await of send_ppv completes: a call returns or raises, a wait for the bot
\* yields a message or times out.
LiveSpec == Init /\ [][Next]_vars /\ \A r \in Requests : WF_vars(FlowStep(r))

\* ------------------------------------------------------------- properties
\* Positions inside the conversation block of send_ppv.
ConvPcs ==
    {"s1_send", "s1_wait", "s2_send", "s2_wait", "s3_act", "s3_wait",
     "s4_send", "s4_wait", "sel_find", "sel_bot", "sel_send", "sel_wait",
     "est_entity", "est_send", "est_sleep", "est_delete", "retry_click",
     "retry_fallback", "retry_wait", "final_wait", "f_exit"}

\* Positions inside send_ppv.
FlowPcs == {"f_download", "f_entity", "f_open"} \cup ConvPcs

TypeOK ==
    /\ pc \in [Requests -> {"idle", "h_connect", "h_auth", "h_activate",
                            "h_restore", "done"} \cup FlowPcs]
    /\ activeBot \in {STACCERBOT_USERNAME, KIMFEETGURU_BOT_USERNAME}
    /\ connected \in BOOLEAN
    /\ authorized \in BOOLEAN
    /\ conversations \subseteq Requests
    /\ \A r \in Requests :
        /\ fl[r].retry_count \in 0..(max_retries + 1)
        /\ h[r].outcome.kind \in {"none", "result", "raised"}
        /\ h[r].http.code \in {0, 200, 422, 500}

\* send_ppv failed with the error of the exhausted retries.
RetriesExhaustedError ==
    PPVFlowError(<<"Cannot send PPV: no recent exchange with user and retries exhausted">>)

\* The outcome is the timeout failure of wait_for_response.
IsBotTimeout(outcome) ==
    /\ outcome.kind = "raised"
    /\ outcome.cls = "PPVFlowError"
    /\ Head(outcome.message) = "Bot did not respond within "

\* C1: for every invocation of send_ppv by the handler the restore
\* (switch_to_kimfeetguru) is invoked exactly once: not while the flow runs,
\* and once by the time the handler has answered, whether the flow returned a
\* result, failed with a flow error or raised at one of its steps.
C1_RestoreExactlyOnce ==
    \A r \in Requests :
        /\ pc[r] \in FlowPcs \cup {"h_restore"} =>
              h[r].flowCalls = 1 /\ h[r].restoreCalls = 0
        /\ pc[r] = "done" => h[r].restoreCalls = h[r].flowCalls
        /\ h[r].flowCalls <= 1

\* A request whose flow raised a collaborator's fault mid-step has been
\* answered, and the restore ran once.
C1_Witness ==
    \E r \in Requests :
        /\ pc[r] = "done"
        /\ h[r].outcome = TransportFault
        /\ h[r].flowCalls = 1
        /\ h[r].restoreCalls = 1

\* C2: a failure of the restore never changes the outcome of the request:
\* after a result the handler still answers 200 with that result; after a
\* failure of the flow it answers with the flow's message, not the restore's.
C2_RestoreFailureKeepsOutcome ==
    \A r \in Requests :
        (pc[r] = "done" /\ h[r].restoreFailed) =>
            IF h[r].outcome.kind = "result"
            THEN h[r].http = [code |-> 200, status |-> "success",
                              message |-> h[r].outcome.message,
                              username |-> h[r].outcome.username]
            ELSE /\ h[r].outcome.kind = "raised"
                 /\ h[r].http.code = 500
                 /\ h[r].http.status = "error"
                 /\ h[r].http.message \in
                        {h[r].outcome.message,
                         <<"Unexpected error: ">> \o h[r].outcome.message}
                 /\ h[r].http.message # <<"Unexpected error: ", "update connected bot failed">>

\* The flow failed with a flow error, the restore failed too, and the
\* request has been answered.
C2_Witness ==
    \E r \in Requests :
        /\ pc[r] = "done"
        /\ h[r].restoreFailed
        /\ h[r].outcome.kind = "raised"
        /\ h[r].outcome.cls = "PPVFlowError"

\* C3 (as claimed): at most one flow runs on the shared session at any time;
\* a second request that arrives while a flow is in flight does not run its
\* own flow alongside.
C3_AtMostOneFlow ==
    Cardinality({r \in Requests : pc[r] \in FlowPcs}) <= 1

\* C4: the peer-selection retries are bounded: never more than 3 structured
\* peer replies are sent; the flow fails with "retries exhausted" only after
\* exactly 3 selection attempts, each answered with a rejection marker; and a
\* flow whose 3 attempts were all answered with a rejection marker ends with
\* that failure.
C4_SelectionRetriesBounded ==
    \A r \in Requests :
        /\ fl[r].selAttempts <= 3
        /\ (pc[r] = "f_exit" /\ h[r].outcome = RetriesExhaustedError) =>
              fl[r].selAttempts = 3 /\ fl[r].markers = 3
        /\ (pc[r] = "f_exit" /\ fl[r].selAttempts = 3 /\ fl[r].markers = 3) =>
              h[r].outcome = RetriesExhaustedError

\* Three selection attempts were rejected and the flow has failed.
C4_Witness ==
    \E r \in Requests :
        /\ pc[r] = "f_exit"
        /\ fl[r].selAttempts = 3
        /\ fl[r].markers = 3
        /\ h[r].outcome = RetriesExhaustedError

\* C5 (as claimed): whenever an await of the flow timed out and the last
\* response seen does not contain "preparing", the flow ends with the
\* timeout failure, never with a result.
C5_TimeoutIsFailure ==
    \A r \in Requests :
        (pc[r] = "f_exit" /\ fl[r].timedOut # "none"
            /\ ~Contains(K_prep, Lower(fl[r].response.text))) =>
            IsBotTimeout(h[r].outcome)

\* C6: when the final confirmation wait times out and the accepted selection
\* response contains "preparing" (in any case), the flow returns success
\* with "PPV submitted for sending" and the username of the request.
C6_ProvisionalSuccess ==
    \A r \in Requests :
        (pc[r] = "f_exit" /\ fl[r].timedOut = "final_wait"
            /\ Contains(K_prep, Lower(fl[r].response.text))) =>
            h[r].outcome = [kind |-> "result", cls |-> "",
                            message |-> <<"PPV submitted for sending">>,
                            username |-> request[r].username]

\* The final wait timed out after the bot said "Preparing PPV".
C6_Witness ==
    \E r \in Requests :
        /\ pc[r] = "f_exit"
        /\ fl[r].timedOut = "final_wait"
        /\ fl[r].response.text = T_preparing

\* C7: when the final message is received and its text contains "done" or
\* "sent" (in any case), the flow returns success with "PPV sent
\* successfully" and the username of the request, unchanged.
C7_SentSuccess ==
    \A r \in Requests :
        (pc[r] = "f_exit" /\ fl[r].final_response # NoMsg
            /\ fl[r].final_response.text \in {T_done, T_sent}) =>
            /\ h[r].outcome = [kind |-> "result", cls |-> "",
                               message |-> <<"PPV sent successfully">>,
                               username |-> request[r].username]
            /\ fl[r].response.text \notin {T_reject, T_reject48}

\* The final message "Done deal" was received for a request for "@bob".
C7_Witness ==
    \E r \in Requests :
        /\ pc[r] = "f_exit"
        /\ fl[r].final_response.text = T_done
        /\ request[r].username = <<"@", "b", "o", "b">>

\* The selection has been accepted: the flow waits for, or has passed, the
\* final confirmation.
Accepted(r) ==
    \/ pc[r] = "final_wait"
    \/ pc[r] = "f_exit" /\ (fl[r].final_response # NoMsg \/ fl[r].timedOut = "final_wait")

\* C8: k rejected selection attempts (k <= 2) followed by an accepted one
\* mean exactly k runs of the contact establishment and k + 1 selection
\* attempts, and the flow then ends with a result (success).
C8_EstablisherPerRejection ==
    \A r \in Requests :
        Accepted(r) =>
            /\ fl[r].markers <= 2
            /\ fl[r].estCalls = fl[r].markers
            /\ fl[r].selAttempts = fl[r].markers + 1
            /\ pc[r] = "f_exit" =>
                  h[r].outcome.kind = "result" /\ h[r].outcome.message # <<>>

\* One rejection, then an accepted selection, and the flow has ended.
C8_Witness ==
    \E r \in Requests :
        /\ pc[r] = "f_exit"
        /\ Accepted(r)
        /\ fl[r].markers = 1
        /\ fl[r].estCalls = 1
        /\ fl[r].selAttempts = 2

\* C9 (as claimed): send_ppv fails only with PPVFlowError.
C9_OnlyFlowErrors ==
    \A r \in Requests :
        h[r].outcome.kind = "raised" => h[r].outcome.cls = "PPVFlowError"

\* C10: every failure of an accepted request is answered 500 with the body
\* {status: "error", message: <non-empty>}; "success" is answered only, and
\* always, when the flow returned a result.
C10_ServiceBoundary ==
    \A r \in Requests :
        (pc[r] = "done" /\ request[r].stars >= 1) =>
            IF h[r].outcome.kind = "result"
            THEN h[r].http.code = 200 /\ h[r].http.status = "success"
            ELSE /\ h[r].http.code = 500
                 /\ h[r].http.status = "error"
                 /\ h[r].http.message # <<>>

\* An unauthorized client: the request was answered 500 before any flow ran.
C10_Witness ==
    \E r \in Requests :
        /\ pc[r] = "done"
        /\ h[r].flowCalls = 0
        /\ h[r].http.code = 500
        /\ h[r].http.message = <<"Client is not authorized">>

\* ------------------------------------------------ claims C11 to C20
\* The last thing request r's flow sent to the bot.
LastSent(r) == fl[r].sent[Len(fl[r].sent)]

\* The message carries a KeyboardButtonRequestPeer.
HasRequestPeer(m) ==
    \E i \in 1..Len(Flatten(m.rows)) : Flatten(m.rows)[i].kind = "request_peer"

\* Positions of the entries of r's log that are structured peer replies.
PeerReplies(r) == {i \in 1..Len(fl[r].sent) : fl[r].sent[i].op = "peer"}

\* Positions inside the contact establishment.
EstPcs == {"est_entity", "est_send", "est_sleep", "est_delete"}

\* C11: a request with stars < 1 is answered (422) before any part of the
\* core runs: its handler never reaches the identity activation, the flow or
\* the restore.
C11_InvalidRejectedBeforeCore ==
    \A r \in Requests :
        (request[r] # NoRequest /\ request[r].stars < 1) =>
            /\ pc[r] = "done"
            /\ h[r].http.code = 422
            /\ h[r].flowCalls = 0
            /\ h[r].restoreCalls = 0
            /\ h[r].outcome = NoOutcome

\* A request with stars = 0 has been answered 422 and the identity is the
\* one the service started with.
C11_Witness ==
    \E r \in Requests :
        /\ request[r].username = <<"@", "b", "o", "b">>
        /\ request[r].stars = 0
        /\ pc[r] = "done"
        /\ h[r].http.code = 422
        /\ \A q \in Requests \ {r} : pc[q] = "idle"
        /\ activeBot = "kimfeetguru_bot"

\* C12 (as claimed): whenever no request is in flight the account's active
\* identity is kimfeetguru_bot, whether the flows succeeded or failed (before
\* the first request the service is in that identity as well).
C12_IdentityRestored ==
    (\A r \in Requests : pc[r] \in {"idle", "done"}) =>
        activeBot = "kimfeetguru_bot"

\* C13: after the caption step, if a button of the step-2 response has a label
\* that contains "empty" case-insensitively, the thing sent is the activation
\* of the first such button in row-major order; if none has, no button was
\* activated.
C13_FirstMatchingButton ==
    \A r \in Requests :
        pc[r] = "s3_wait" =>
            LET bs == Flatten(fl[r].response.rows)
                hits == {i \in 1..Len(bs) :
                            Contains(<<"e", "m", "p", "t", "y">>, Lower(bs[i].text))}
            IN  IF hits = {}
                THEN LastSent(r).op # "click"
                ELSE /\ LastSent(r).op = "click"
                     /\ LastSent(r).msg_id = fl[r].response.id
                     /\ \E i \in hits : /\ \A j \in hits : i <= j
                                        /\ LastSent(r).arg = bs[i].text

\* The caption prompt has the buttons Skip, "EMPTY *" and "Empty": the one
\* activated is "EMPTY *".
C13_Witness ==
    \E r \in Requests :
        /\ pc[r] = "s3_wait"
        /\ fl[r].response.text = T_caption
        /\ LastSent(r).op = "click"
        /\ LastSent(r).arg = <<"E", "M", "P", "T", "Y", " ", "*">>

\* C14: a selection goes past the lookup only on a prompt with a RequestPeer
\* button; the flow fails with "Could not find user selection button" on a
\* prompt without one, and with "Could not find user @<name>: ..." when the
\* target cannot be resolved; in both failures no structured peer reply was
\* sent for that prompt and no wait followed.
C14_SelectionErrors ==
    \A r \in Requests :
        /\ pc[r] \in {"sel_bot", "sel_send", "sel_wait"} =>
              HasRequestPeer(fl[r].response)
        /\ (pc[r] = "f_exit"
              /\ h[r].outcome = PPVFlowError(<<"Could not find user selection button">>)) =>
              /\ ~HasRequestPeer(fl[r].response)
              /\ \A i \in PeerReplies(r) : fl[r].sent[i].msg_id # fl[r].response.id
              /\ fl[r].timedOut = "none"
              /\ fl[r].final_response = NoMsg
        /\ (pc[r] = "f_exit" /\ h[r].outcome.kind = "raised"
              /\ Head(h[r].outcome.message) = "Could not find user @") =>
              /\ h[r].outcome.cls = "PPVFlowError"
              /\ h[r].outcome.message =
                    <<"Could not find user @", "b", "o", "b", ": ", "transport error">>
              /\ HasRequestPeer(fl[r].response)
              /\ \A i \in PeerReplies(r) : fl[r].sent[i].msg_id # fl[r].response.id
              /\ fl[r].timedOut = "none"
              /\ fl[r].final_response = NoMsg

\* The answer to the price has no RequestPeer button: the flow has failed and
\* nothing was sent after the price.
C14_Witness ==
    \E r \in Requests :
        /\ pc[r] = "f_exit"
        /\ h[r].outcome = PPVFlowError(<<"Could not find user selection button">>)
        /\ Len(fl[r].sent) = 4
        /\ fl[r].response.id = 4

\* C15: each selection attempt sends one structured peer reply: it carries
\* the id of the prompt received last, the button_id of the first RequestPeer
\* button of that prompt (row-major) and the username without its leading
\* "@"; replies of successive attempts refer to successively later prompts.
C15_PeerReplyRefersToPrompt ==
    \A r \in Requests :
        /\ Cardinality(PeerReplies(r)) = fl[r].selAttempts
        /\ \A i, j \in PeerReplies(r) :
              i < j => fl[r].sent[i].msg_id < fl[r].sent[j].msg_id
        /\ pc[r] = "sel_wait" =>
              LET bs == Flatten(fl[r].response.rows)
                  hits == {i \in 1..Len(bs) : bs[i].kind = "request_peer"}
              IN  /\ LastSent(r).op = "peer"
                  /\ LastSent(r).msg_id = fl[r].response.id
                  /\ LastSent(r).arg = <<"b", "o", "b">>
                  /\ \E i \in hits : /\ \A j \in hits : i <= j
                                     /\ LastSent(r).button_id = bs[i].button_id

\* After one retry the second peer reply has been sent, for the new prompt.
C15_Witness ==
    \E r \in Requests :
        /\ pc[r] = "sel_wait"
        /\ fl[r].selAttempts = 2
        /\ fl[r].retry_count = 1
        /\ LastSent(r).msg_id = 6
        /\ LastSent(r).button_id = 7

\* C16: no step of the contact establishment ends the flow or produces an
\* outcome: from inside it the flow only goes on inside it or to the retry
\* button, and from there only to the activation of the retry.
C16_EstablisherFailuresAbsorbed ==
    [][\A r \in Requests :
          /\ pc[r] \in EstPcs =>
                /\ pc'[r] \in EstPcs \cup {"retry_click"}
                /\ h'[r] = h[r]
          /\ pc[r] = "retry_click" =>
                /\ pc'[r] \in {"retry_click", "retry_wait", "retry_fallback"}
                /\ h'[r] = h[r]]_vars

\* The greeting was sent but could not be withdrawn, and the flow is at the
\* retry button.
C16_Witness ==
    \E r \in Requests :
        /\ pc[r] = "retry_click"
        /\ fl[r].quick_msg = "sent"
        /\ h[r].outcome = NoOutcome

\* C17: a run of send_ppv has produced nothing while its steps run, it has
\* produced one result or one exception when it leaves, and no run goes on
\* for ever: every request is again and again outside send_ppv.
C17_FlowTerminates ==
    /\ [](\A r \in Requests :
            /\ pc[r] \in FlowPcs \ {"f_exit"} => h[r].outcome = NoOutcome
            /\ pc[r] \in {"f_exit", "h_restore"} =>
                  h[r].outcome.kind \in {"result", "raised"})
    /\ \A r \in Requests : []<>(pc[r] \notin FlowPcs)

\* A run that went through all three selection attempts has reached its
\* caller.
C17_Witness ==
    \E r \in Requests :
        /\ pc[r] = "h_restore"
        /\ h[r].outcome = RetriesExhaustedError

\* C18: what the flow has sent is always /sell, the photo, the caption
\* action, the price and the peer reply, in this order, and each thing is
\* sent only when as many responses have been received as things were sent
\* before it.
C18_FixedOrder ==
    \A r \in Requests :
        LET s == fl[r].sent
        IN  /\ fl[r].response.id <= Len(s)
            /\ Len(s) <= fl[r].response.id + 1
            /\ Len(s) >= 1 => s[1] = [op |-> "text", arg |-> <<"/sell">>,
                                      msg_id |-> 0, button_id |-> 0]
            /\ Len(s) >= 2 => s[2].op = "file"
            /\ Len(s) >= 3 => \/ s[3].op = "click" /\ s[3].msg_id = 2
                              \/ s[3].op = "text" /\ s[3].arg = <<"Empty">>
            /\ Len(s) >= 4 => s[4].op = "text" /\ s[4].arg = <<"5">>
            /\ Len(s) >= 5 => s[5].op = "peer" /\ s[5].msg_id = 4

\* All five things have been sent and the answer to the selection is awaited.
C18_Witness ==
    \E r \in Requests :
        /\ pc[r] = "sel_wait"
        /\ Len(fl[r].sent) = 5
        /\ fl[r].response.id = 4

\* C19: the recovery from a rejected selection: the retry button is reached
\* from the contact establishment only; the retry is the callback with the
\* data "sell_refresh" on the rejecting message; the button labelled
\* "Try again" is looked for only after that callback failed and nothing was
\* sent; without such a button the flow fails; and the next selection is on
\* the message received after the retry.
C19_RecoveryOrder ==
    [][\A r \in Requests :
          /\ (pc'[r] \in EstPcs /\ pc[r] \notin EstPcs) =>
                /\ pc[r] = "sel_wait"
                /\ Contains(<<"n", "o", " ", "e", "x", "c", "h", "a", "n", "g", "e">>,
                            Lower(fl'[r].response.text))
                      \/ Contains(<<"4", "8", "h">>, Lower(fl'[r].response.text))
          /\ (pc'[r] = "retry_click" /\ pc[r] # "retry_click") => pc[r] \in EstPcs
          /\ (pc'[r] = "retry_fallback" /\ pc[r] # "retry_fallback") =>
                /\ pc[r] = "retry_click"
                /\ fl'[r].sent = fl[r].sent
          /\ (pc'[r] = "retry_wait" /\ pc[r] = "retry_click") =>
                fl'[r].sent = Append(fl[r].sent,
                    [op |-> "click_data", arg |-> <<"sell_refresh">>,
                     msg_id |-> fl[r].response.id, button_id |-> 0])
          /\ (pc'[r] = "retry_wait" /\ pc[r] = "retry_fallback") =>
                /\ Len(fl'[r].sent) = Len(fl[r].sent) + 1
                /\ fl'[r].sent[Len(fl'[r].sent)].op = "click"
                /\ fl'[r].sent[Len(fl'[r].sent)].msg_id = fl[r].response.id
                /\ Contains(<<"t", "r", "y", " ", "a", "g", "a", "i", "n">>,
                            Lower(fl'[r].sent[Len(fl'[r].sent)].arg))
          /\ (pc'[r] = "retry_wait" /\ pc[r] # "retry_wait") =>
                pc[r] \in {"retry_click", "retry_fallback"}
          /\ (pc[r] = "retry_fallback" /\ pc'[r] # "retry_fallback"
                /\ \A i \in 1..Len(Flatten(fl[r].response.rows)) :
                      ~Contains(<<"t", "r", "y", " ", "a", "g", "a", "i", "n">>,
                                Lower(Flatten(fl[r].response.rows)[i].text))) =>
                /\ pc'[r] = "f_exit"
                /\ h'[r].outcome = PPVFlowError(<<"Could not find 'Try again' button">>)
          /\ (pc[r] = "retry_wait" /\ pc'[r] # "retry_wait") =>
                \/ pc'[r] = "sel_find" /\ fl'[r].response.id = fl[r].response.id + 1
                \/ pc'[r] = "f_exit" /\ h'[r].outcome.kind = "raised"]_vars

\* The callback by data failed, the button "Try Again" was activated instead
\* and the next prompt is awaited.
C19_Witness ==
    \E r \in Requests :
        /\ pc[r] = "retry_wait"
        /\ LastSent(r).op = "click"
        /\ LastSent(r).arg = <<"T", "r", "y", " ", "A", "g", "a", "i", "n">>
        /\ fl[r].estCalls = 1

\* C20: a flow that has passed the caption step has done exactly one thing
\* for it: it activated a button of the step-2 response whose label contains
\* "empty" (in any case), when there is one, and sent no text; or it sent the
\* text "Empty", when there is none, and activated nothing.
C20_CaptionOneAction ==
    \A r \in Requests :
        /\ pc[r] \in {"s1_send", "s1_wait", "s2_send", "s2_wait", "s3_act"} =>
              Len(fl[r].sent) <= 2
        /\ pc[r] = "s3_wait" =>
              LET bs == Flatten(fl[r].response.rows)
                  labelled == \E i \in 1..Len(bs) :
                                 Contains(<<"e", "m", "p", "t", "y">>, Lower(bs[i].text))
              IN  /\ Len(fl[r].sent) = 3
                  /\ IF labelled
                     THEN /\ fl[r].sent[3].op = "click"
                          /\ Contains(<<"e", "m", "p", "t", "y">>, Lower(fl[r].sent[3].arg))
                     ELSE fl[r].sent[3] = [op |-> "text", arg |-> <<"Empty">>,
                                           msg_id |-> 0, button_id |-> 0]

\* The step-2 response has no buttons and the text "Empty" was sent.
C20_Witness ==
    \E r \in Requests :
        /\ pc[r] = "s3_wait"
        /\ fl[r].response.rows = <<>>
        /\ fl[r].sent[3].op = "text"
        /\ fl[r].sent[3].arg = <<"Empty">>

\* ------------------------------------------------ claims C21 to C28
\* The failure of send_ppv when the photo cannot be downloaded.
DownloadFailure ==
    PPVFlowError(<<"Failed to download photo: ", "transport error">>)

\* C21: only the peer selection is retried: in what a flow has sent, /sell,
\* the photo, the caption action and the price occur at most once each, the
\* structured peer replies at most 3 times and the activations of the retry
\* at most twice; nothing else is sent; and the contact establishment runs at
\* most twice.
C21_OnlySelectionRetried ==
    \A r \in Requests :
        LET s == fl[r].sent
            texts(a) == {i \in 1..Len(s) : s[i].op = "text" /\ s[i].arg = a}
            files == {i \in 1..Len(s) : s[i].op = "file"}
            captions == texts(<<"Empty">>) \cup
                        {i \in 1..Len(s) :
                            /\ s[i].op = "click"
                            /\ Contains(<<"e", "m", "p", "t", "y">>, Lower(s[i].arg))}
            retries == {i \in 1..Len(s) :
                            \/ s[i].op = "click_data"
                            \/ /\ s[i].op = "click"
                               /\ Contains(<<"t", "r", "y", " ", "a", "g", "a", "i", "n">>,
                                           Lower(s[i].arg))}
        IN  /\ Cardinality(texts(<<"/sell">>)) <= 1
            /\ Cardinality(files) <= 1
            /\ Cardinality(captions) <= 1
            /\ Cardinality(texts(<<"5">>)) <= 1
            /\ Cardinality(PeerReplies(r)) <= 3
            /\ Cardinality(retries) <= 2
            /\ Len(s) = Cardinality(texts(<<"/sell">>)) + Cardinality(files)
                        + Cardinality(captions) + Cardinality(texts(<<"5">>))
                        + Cardinality(PeerReplies(r)) + Cardinality(retries)
            /\ fl[r].selAttempts <= 3
            /\ fl[r].estCalls <= 2

\* The third selection attempt has been made, after two runs of the contact
\* establishment and two activations of the retry: nine things were sent.
C21_Witness ==
    \E r \in Requests :
        /\ pc[r] = "sel_wait"
        /\ fl[r].selAttempts = 3
        /\ fl[r].estCalls = 2
        /\ Len(fl[r].sent) = 9

\* C22 (as claimed): while a request is between its successful identity
\* switch and its own restore, the account's connected bot is staccerbot.
C22_IdentityHeldDuringFlow ==
    \A r \in Requests :
        pc[r] \in FlowPcs \cup {"h_restore"} => activeBot = "staccerbot"

\* C23: a final message whose text contains neither "done" nor "sent" makes
\* the flow return the result "PPV flow completed" with the username of the
\* request: not an exception, and not "PPV submitted for sending".
C23_GenericCompletion ==
    \A r \in Requests :
        (pc[r] = "f_exit" /\ fl[r].final_response # NoMsg
            /\ ~Contains(<<"d", "o", "n", "e">>, Lower(fl[r].final_response.text))
            /\ ~Contains(<<"s", "e", "n", "t">>, Lower(fl[r].final_response.text))) =>
            h[r].outcome = [kind |-> "result", cls |-> "",
                            message |-> <<"PPV flow completed">>,
                            username |-> request[r].username]

\* The final message received says "Preparing PPV".
C23_Witness ==
    \E r \in Requests :
        /\ pc[r] = "f_exit"
        /\ fl[r].final_response.text = T_preparing
        /\ h[r].outcome.kind = "result"

\* C24 (as claimed): a final confirmation that the bot sends more than 30
\* and fewer than 60 seconds after the accepted selection response is
\* received, not timed out.
C24_FinalBudgetSixty ==
    \A r \in Requests :
        (pc[r] = "f_exit" /\ fl[r].final_delay > 30 /\ fl[r].final_delay < 60) =>
            /\ fl[r].final_response # NoMsg
            /\ fl[r].timedOut = "none"

\* C25: a flow that returns a result has sent /sell, the photo, the caption
\* action, the price and a structured peer reply, the peer reply being the
\* last thing it sent, and the response to that reply carries no rejection
\* marker ("no exchange", "48h", in any case).
C25_SuccessAfterAcceptedSelection ==
    \A r \in Requests :
        (pc[r] = "f_exit" /\ h[r].outcome.kind = "result") =>
            LET s == fl[r].sent
            IN  /\ Len(s) >= 5
                /\ s[1].op = "text" /\ s[1].arg = <<"/sell">>
                /\ s[2].op = "file"
                /\ s[3].op = "click" \/ (s[3].op = "text" /\ s[3].arg = <<"Empty">>)
                /\ s[4].op = "text" /\ s[4].arg = <<"5">>
                /\ s[5].op = "peer"
                /\ LastSent(r).op = "peer"
                /\ LastSent(r).msg_id = fl[r].response.id - 1
                /\ ~Contains(<<"n", "o", " ", "e", "x", "c", "h", "a", "n", "g", "e">>,
                             Lower(fl[r].response.text))
                /\ ~Contains(<<"4", "8", "h">>, Lower(fl[r].response.text))

\* A flow returned a result after one rejected and one accepted selection.
C25_Witness ==
    \E r \in Requests :
        /\ pc[r] = "f_exit"
        /\ h[r].outcome.kind = "result"
        /\ fl[r].markers = 1
        /\ Len(fl[r].sent) = 7

\* C26: a request whose identity switch failed is answered with the error
\* (500) without send_ppv having been called; and a handler that has not
\* called send_ppv has sent nothing to the bot, holds no conversation, has
\* no outcome of a flow and has not called the restore.
C26_NoFlowWithoutActivation ==
    \A r \in Requests :
        /\ h[r].flowCalls = 0 =>
              /\ h[r].restoreCalls = 0
              /\ h[r].outcome = NoOutcome
              /\ fl[r].sent = <<>>
              /\ r \notin conversations
        /\ (pc[r] = "done"
              /\ h[r].http.message =
                    <<"Unexpected error: ", "update connected bot failed">>) =>
              /\ h[r].flowCalls = 0
              /\ h[r].http.code = 500
              /\ h[r].http.status = "error"

\* The switch to staccerbot failed and the request has been answered.
C26_Witness ==
    \E r \in Requests :
        /\ pc[r] = "done"
        /\ h[r].http.message = <<"Unexpected error: ", "update connected bot failed">>
        /\ h[r].restoreCalls = 0
        /\ activeBot = "kimfeetguru_bot"

\* C27: the failure of the photo download is raised at the download, with
\* nothing sent and no conversation opened; the flow that failed so sends
\* nothing afterwards, and its handler calls the restore once.
C27_DownloadFailureSendsNothing ==
    [][\A r \in Requests :
          /\ h'[r].outcome = DownloadFailure =>
                /\ pc'[r] \in {"h_restore", "done"}
                /\ fl'[r].sent = <<>>
                /\ r \notin conversations'
                /\ h'[r].flowCalls = 1
                /\ h'[r].restoreCalls = IF pc'[r] = "done" THEN 1 ELSE 0
          /\ (h'[r].outcome = DownloadFailure /\ h[r].outcome # DownloadFailure) =>
                /\ pc[r] = "f_download"
                /\ fl'[r] = fl[r]
                /\ conversations' = conversations]_vars

\* The download failed, the restore ran and the request has been answered.
C27_Witness ==
    \E r \in Requests :
        /\ pc[r] = "done"
        /\ h[r].outcome = DownloadFailure
        /\ h[r].restoreCalls = 1
        /\ h[r].http.code = 500

\* C28 (as claimed): when the flow is about to activate the retry, the
\* greeting it sent to the target, if any, has been withdrawn.
C28_GreetingWithdrawn ==
    \A r \in Requests :
        pc[r] \in {"retry_click"} => fl[r].quick_msg # "sent"

====
